---- MODULE Spec2Model ----
(***************************************************************************)
(* The COVID ingestion scripts of jparep/external-api-connection.          *)
(*                                                                         *)
(* ingest_push_to_snowflake.py: one process per run.  The process opens a  *)
(* warehouse connection at import, then ingest_api_to_snowflake() fetches  *)
(* the endpoint, normalises, filters by the hash tracker, inserts the      *)
(* archive rows one by one, creates the flat table, writes a CSV, PUTs it  *)
(* into the table stage, COPYs the stage into the flat table, inserts the  *)
(* tracker rows one by one and logs the fingerprint.  Any exception is     *)
(* caught once; the finally block closes cursor and connection.            *)
(*                                                                         *)
(* test_api.py: the CSV variant.  ingest() fetches, normalises, writes the *)
(* CSV, creates COVID_STATS_CSV, PUTs, COPYs and removes the local file.   *)
(* It has no try block and closes nothing.                                 *)
(*                                                                         *)
(* The warehouse is shared by all runs.  Every statement is its own        *)
(* transaction (the connector's autocommit), so each cursor.execute is one *)
(* step and nothing is rolled back.  Tables are multisets of rows; a row's *)
(* "by" field records the session that wrote it.                           *)
(***************************************************************************)
EXTENDS Integers, Sequences, FiniteSets, Bags, TLC

\* ---------------------------------------------------------------- bounds
NumConcurrent == 2    \* processes that run at the same time (Spec)
NumSeq == 2           \* processes that run one after the other (SpecSeq)
NumRerun == 3         \* processes that run one after the other (SpecRerun)

\* ------------------------------------------------------ program constants
Limit == 10           \* json_data[:10]
TestLimit == 5        \* response.json()[:5]

Largest(S) == CHOOSE x \in S : \A y \in S : y <= x

Runs == 1..Largest({NumConcurrent, NumSeq, NumRerun})
ConcurrentRuns == 1..NumConcurrent
SeqRuns == 1..NumSeq
RerunRuns == 1..NumRerun

PushScript == "ingest_push_to_snowflake"
TestScript == "test_api"

\* ------------------------------------------------------------- payloads
\* A raw record is a JSON object: its key/value pairs in the order of the
\* response text.
Rec(c, n) == << <<"country", c>>, <<"cases", n>> >>
RecSwapped(c, n) == << <<"cases", n>>, <<"country", c>> >>

CountryNames == <<"A", "B", "C", "D", "E", "F", "G", "H", "I", "J", "K", "L">>

\* A response longer than the limit: Limit + 1 records, all different.
LongPayload == [i \in 1..(Limit + 1) |-> Rec(CountryNames[i], "10")]

\* The responses of the endpoint, per specification.
ConcurrentPayloads ==
    { << >>,
      << Rec("A", "10") >> }

RerunPayloads ==
    { << Rec("A", "10") >>,
      << Rec("A", "10"), Rec("C", "30") >> }

CsvPayloads ==
    { << Rec("A", "10") >>,
      << Rec("A", "10"), Rec("B", "20") >> }

Payloads ==
    { << >>,
      << Rec("A", "10") >>,
      << Rec("A", "10"), Rec("B", "20") >>,
      << Rec("A", "10"), RecSwapped("A", "10") >>,
      LongPayload }

\* ------------------------------------------------------------ compute_hash
\* The keys of the records, in the order sort_keys gives them.
SortedKeys == <<"cases", "country">>

KeyRank(k) == CHOOSE i \in 1..Len(SortedKeys) : SortedKeys[i] = k

\* json.dumps(obj, sort_keys=True): the pairs of obj ordered by key.
DumpsSorted(obj) ==
    LET n == Len(obj)
        before(j) == {k \in 1..n : KeyRank(obj[k][1]) < KeyRank(obj[j][1])}
        at(i) == CHOOSE j \in 1..n : Cardinality(before(j)) = i - 1
    IN  [i \in 1..n |-> obj[at(i)]]

\* sha256 of the sorted dump; the digest is collision free, so it is
\* represented by the text it digests.
compute_hash(obj) == [sha256 |-> DumpsSorted(obj)]

\* compute_hash(response.text): the text is a string, there is nothing to sort.
TextHash(text) == [sha256 |-> text]

\* ---------------------------------------------------------------- state
VARIABLES
    script,          \* the script each process executes
    pc,              \* position of each process
    err,             \* the statement whose exception ended the try block
    conn,            \* "none", "open" or "closed"
    response,        \* response.text
    json_data,       \* response.json()[:10]
    api_fingerprint,
    df,              \* the normalised frame
    existing_hashes,
    df_filtered,
    ai,              \* position of the archive loop in df_filtered
    ti,              \* position of the tracker loop in df_filtered
    local_csv,       \* rows of the temporary CSV file
    tmpfiles,        \* the temporary files on the local disk
    clock,           \* datetime.utcnow()
    archive,         \* RAW.RAW_JSON.RAW_JSON_ARCHIVE
    flatCreated,     \* RAW.RAW_JSON.COVID_STATS_GENERIC exists
    flat,            \* RAW.RAW_JSON.COVID_STATS_GENERIC
    stage,           \* files of the table stage @%COVID_STATS_GENERIC
    loadedFiles,     \* load metadata of COVID_STATS_GENERIC
    tracker,         \* RAW.RAW_JSON.RECORD_HASH_TRACKER
    fplog,           \* RAW.RAW_JSON.API_FINGERPRINT_LOG
    csvCreated,      \* COVID_STATS_CSV exists
    csvTable,        \* COVID_STATS_CSV
    csvStage,        \* files of the table stage @%COVID_STATS_CSV
    csvLoaded        \* load metadata of COVID_STATS_CSV

locals == <<response, json_data, api_fingerprint, df, existing_hashes,
            df_filtered, ai, ti, local_csv>>
warehouse == <<archive, flatCreated, flat, stage, loadedFiles, tracker, fplog>>
csvWarehouse == <<csvCreated, csvTable, csvStage, csvLoaded>>
vars == <<script, pc, err, conn, locals, tmpfiles, clock, warehouse, csvWarehouse>>

\* ------------------------------------------------------------- helpers
Field(obj, key) ==
    LET j == CHOOSE j \in 1..Len(obj) : obj[j][1] = key IN obj[j][2]

\* data[:limit]
Truncate(data, limit) ==
    SubSeq(data, 1, IF Len(data) < limit THEN Len(data) ELSE limit)

\* pd.json_normalize, the upper-cased columns, _INGEST_TS and RECORD_HASH.
\* idx is the frame's index label: the position in the data.
NormalizedRow(data, i, ts) ==
    [idx |-> i,
     COUNTRY |-> Field(data[i], "country"),
     CASES |-> Field(data[i], "cases"),
     INGEST_TS |-> ts,
     RECORD_HASH |-> compute_hash(data[i])]

Normalize(data, ts) == [i \in 1..Len(data) |-> NormalizedRow(data, i, ts)]

\* The filter without its negation: df[df["RECORD_HASH"].isin(existing_hashes)].
FilterNewInverted(frame, existing) ==
    LET RECURSIVE keep(_)
        keep(i) ==
            IF i > Len(frame) THEN << >>
            ELSE IF frame[i].RECORD_HASH \in existing
                 THEN <<frame[i]>> \o keep(i + 1)
                 ELSE keep(i + 1)
    IN  keep(1)

\* df[~df["RECORD_HASH"].isin(existing_hashes)]
FilterNew(frame, existing) ==
    LET RECURSIVE keep(_)
        keep(i) ==
            IF i > Len(frame) THEN << >>
            ELSE IF frame[i].RECORD_HASH \in existing
                 THEN keep(i + 1)
                 ELSE <<frame[i]>> \o keep(i + 1)
    IN  keep(1)

\* One INSERT: a table is a multiset of rows.
InsertRow(table, row) == table (+) SetToBag({row})

\* The query against the wrong table: SELECT RECORD_HASH FROM RAW_JSON_ARCHIVE.
SelectHashesFromArchive(rows) == {row.record_hash : row \in BagToSet(archive)}

\* SELECT RECORD_HASH FROM RECORD_HASH_TRACKER, collected into a set.
SelectHashes(rows) == {row.record_hash : row \in BagToSet(rows)}

\* The INSERT with the fingerprint and the record hash in each other's place.
ArchiveRowSwapped(r, row) ==
    [id |-> row.COUNTRY,
     raw_payload |-> json_data[r][row.idx],
     api_id |-> "covid_api",
     api_fingerprint |-> row.RECORD_HASH,
     record_hash |-> api_fingerprint[r],
     status |-> "fetched",
     by |-> r]

\* The six values of one archive INSERT; json.dumps(json_data[i]) keeps the
\* record as it came.
ArchiveRow(r, row) ==
    [id |-> row.COUNTRY,
     raw_payload |-> json_data[r][row.idx],
     api_id |-> "covid_api",
     api_fingerprint |-> api_fingerprint[r],
     record_hash |-> row.RECORD_HASH,
     status |-> "fetched",
     by |-> r]

\* The tracker INSERT with the payload fingerprint in place of the record hash.
TrackerRowFingerprint(r, rh) ==
    [record_hash |-> api_fingerprint[r], record_source |-> "covid_api", by |-> r]

\* The two values of one tracker INSERT.
TrackerRow(r, rh) == [record_hash |-> rh, record_source |-> "covid_api", by |-> r]

\* len(response.text), counted in records.
FingerprintRow(r) ==
    [api_id |-> "covid_api",
     fingerprint |-> api_fingerprint[r],
     payload_length |-> Len(response[r]),
     by |-> r]

\* The log INSERT inside the tracker loop: one row per filtered record.
LogInsertPerRecord(log, r) ==
    IF Len(df_filtered[r]) = 0 THEN log
    ELSE log (+) [row \in {FingerprintRow(r)} |-> Len(df_filtered[r])]

\* The INSERT into API_FINGERPRINT_LOG.
LogInsert(log, r) == InsertRow(log, FingerprintRow(r))

\* to_csv(index=False): the columns without the index.
CsvRow(row) ==
    [COUNTRY |-> row.COUNTRY, CASES |-> row.CASES,
     INGEST_TS |-> row.INGEST_TS, RECORD_HASH |-> row.RECORD_HASH]

ToCsv(frame) == [k \in 1..Len(frame) |-> CsvRow(frame[k])]

\* PUT file://<local_csv> @%<table> OVERWRITE = TRUE.  The temporary file's
\* name is unique to the process.
PutInto(files, r) ==
    {f \in files : f.name # r} \cup {[name |-> r, rows |-> local_csv[r]]}

\* COPY INTO <table> FROM @%<table> names no file: it loads every staged
\* file the load metadata does not list yet.
UnloadedFiles(files, loaded) == {f \in files : f.name \notin loaded}

\* The rows COPY loads from these files: one per line after the header.
FileRows(files, r) ==
    UNION {{[row |-> f.rows[k], file |-> f.name, line |-> k, by |-> r] :
                k \in 1..Len(f.rows)} : f \in files}

\* ------------------------------------------------------------ positions
\* The statements of the try block, in the order of the function body.
StatementOrder ==
    <<"fetch", "normalize", "query", "archive", "create", "csv", "put",
      "copy", "track", "log", "finally">>

PositionIn(order, at) == CHOOSE i \in 1..Len(order) : order[i] = at

\* The tracker loop moved in front of the archive loop.
TrackFirstOrder ==
    <<"fetch", "normalize", "query", "track", "archive", "create", "csv",
      "put", "copy", "log", "finally">>

FollowsTrackFirst(at) == TrackFirstOrder[PositionIn(TrackFirstOrder, at) + 1]

\* The statement after this one.
Follows(at) == StatementOrder[PositionIn(StatementOrder, at) + 1]

TryStages == {StatementOrder[i] : i \in 1..(Len(StatementOrder) - 1)}

\* An except clause that swallows the exception and goes on.
ExceptContinue(at) == Follows(at)

\* except Exception: print the error; control falls into the finally block.
ExceptTarget(at) == "finally"

\* --------------------------------------------------------------- Init
Init ==
    /\ script = [r \in Runs |-> "none"]
    /\ pc = [r \in Runs |-> "idle"]
    /\ err = [r \in Runs |-> "none"]
    /\ conn = [r \in Runs |-> "none"]
    /\ response = [r \in Runs |-> << >>]
    /\ json_data = [r \in Runs |-> << >>]
    /\ api_fingerprint = [r \in Runs |-> TextHash(<< >>)]
    /\ df = [r \in Runs |-> << >>]
    /\ existing_hashes = [r \in Runs |-> {}]
    /\ df_filtered = [r \in Runs |-> << >>]
    /\ ai = [r \in Runs |-> 1]
    /\ ti = [r \in Runs |-> 1]
    /\ local_csv = [r \in Runs |-> << >>]
    /\ tmpfiles = {}
    /\ clock = 0
    /\ archive = EmptyBag
    /\ flatCreated = FALSE
    /\ flat = EmptyBag
    /\ stage = {}
    /\ loadedFiles = {}
    /\ tracker = EmptyBag
    /\ fplog = EmptyBag
    /\ csvCreated = FALSE
    /\ csvTable = EmptyBag
    /\ csvStage = {}
    /\ csvLoaded = {}

\* ------------------------------------- ingest_push_to_snowflake.py
\* The process starts: load_dotenv, the connection at import, and for
\* ingest_push_to_snowflake.py conn.cursor() before the try block.
Begin(r, s) ==
    /\ pc[r] = "idle"
    /\ script' = [script EXCEPT ![r] = s]
    /\ pc' = [pc EXCEPT ![r] = IF s = PushScript THEN "fetch" ELSE "t_fetch"]
    /\ conn' = [conn EXCEPT ![r] = "open"]
    /\ UNCHANGED <<err, locals, tmpfiles, clock, warehouse, csvWarehouse>>

\* Runs may overlap.
Start(r) == Begin(r, PushScript)

\* Runs follow each other: a process starts when those before it have exited.
StartSeq(r, scripts) ==
    /\ \A q \in Runs : q < r => pc[q] = "exit"
    /\ \E s \in scripts : Begin(r, s)

\* Step 1: requests.get, raise_for_status, response.json()[:10], fingerprint.
Fetch(r, bodies) ==
    /\ pc[r] = "fetch"
    /\ \E text \in bodies :
        /\ response' = [response EXCEPT ![r] = text]
        /\ json_data' = [json_data EXCEPT ![r] = Truncate(text, Limit)]
        /\ api_fingerprint' = [api_fingerprint EXCEPT ![r] = TextHash(text)]
    /\ pc' = [pc EXCEPT ![r] = Follows("fetch")]
    /\ UNCHANGED <<script, err, conn, df, existing_hashes, df_filtered, ai, ti,
                   local_csv, tmpfiles, clock, warehouse, csvWarehouse>>

\* Step 2: the frame with _INGEST_TS and RECORD_HASH.
NormalizeStep(r) ==
    /\ pc[r] = "normalize"
    /\ clock' = clock + 1
    /\ df' = [df EXCEPT ![r] = Normalize(json_data[r], clock')]
    /\ pc' = [pc EXCEPT ![r] = Follows("normalize")]
    /\ UNCHANGED <<script, err, conn, response, json_data, api_fingerprint,
                   existing_hashes, df_filtered, ai, ti, local_csv, tmpfiles,
                   warehouse, csvWarehouse>>

\* Step 3: read the tracker, keep the rows whose hash it does not hold.
QueryHashes(r) ==
    /\ pc[r] = "query"
    /\ existing_hashes' = [existing_hashes EXCEPT ![r] = SelectHashes(tracker)]
    /\ df_filtered' = [df_filtered EXCEPT ![r] = FilterNew(df[r], existing_hashes'[r])]
    /\ pc' = [pc EXCEPT ![r] = Follows("query")]
    /\ UNCHANGED <<script, err, conn, response, json_data, api_fingerprint, df,
                   ai, ti, local_csv, tmpfiles, clock, warehouse, csvWarehouse>>

\* Step 4: one INSERT into the archive per filtered row.
ArchiveInsert(r) ==
    /\ pc[r] = "archive"
    /\ ai[r] <= Len(df_filtered[r])
    /\ archive' = InsertRow(archive, ArchiveRow(r, df_filtered[r][ai[r]]))
    /\ ai' = [ai EXCEPT ![r] = ai[r] + 1]
    /\ UNCHANGED <<script, pc, err, conn, response, json_data, api_fingerprint,
                   df, existing_hashes, df_filtered, ti, local_csv, tmpfiles,
                   clock, flatCreated, flat, stage, loadedFiles, tracker, fplog,
                   csvWarehouse>>

\* The archive loop has no row left.
ArchiveDone(r) ==
    /\ pc[r] = "archive"
    /\ ai[r] > Len(df_filtered[r])
    /\ pc' = [pc EXCEPT ![r] = Follows("archive")]
    /\ UNCHANGED <<script, err, conn, locals, tmpfiles, clock, warehouse,
                   csvWarehouse>>

\* Step 5: CREATE TABLE IF NOT EXISTS.
CreateTable(r) ==
    /\ pc[r] = "create"
    /\ flatCreated' = TRUE
    /\ pc' = [pc EXCEPT ![r] = Follows("create")]
    /\ UNCHANGED <<script, err, conn, locals, tmpfiles, clock, archive, flat,
                   stage, loadedFiles, tracker, fplog, csvWarehouse>>

\* Step 6: df_filtered.to_csv into a fresh temporary file (delete=False).
WriteCsv(r) ==
    /\ pc[r] = "csv"
    /\ local_csv' = [local_csv EXCEPT ![r] = ToCsv(df_filtered[r])]
    /\ tmpfiles' = tmpfiles \cup {r}
    /\ pc' = [pc EXCEPT ![r] = Follows("csv")]
    /\ UNCHANGED <<script, err, conn, response, json_data, api_fingerprint, df,
                   existing_hashes, df_filtered, ai, ti, clock, warehouse,
                   csvWarehouse>>

\* Step 7: PUT the file into the table stage.
PutFile(r) ==
    /\ pc[r] = "put"
    /\ stage' = PutInto(stage, r)
    /\ pc' = [pc EXCEPT ![r] = Follows("put")]
    /\ UNCHANGED <<script, err, conn, locals, tmpfiles, clock, archive,
                   flatCreated, flat, loadedFiles, tracker, fplog, csvWarehouse>>

\* Step 8: COPY INTO the flat table FROM the table stage.
CopyInto(r) ==
    /\ pc[r] = "copy"
    /\ LET files == UnloadedFiles(stage, loadedFiles) IN
        /\ flat' = flat (+) SetToBag(FileRows(files, r))
        /\ loadedFiles' = loadedFiles \cup {f.name : f \in files}
    /\ pc' = [pc EXCEPT ![r] = Follows("copy")]
    /\ UNCHANGED <<script, err, conn, locals, tmpfiles, clock, archive,
                   flatCreated, stage, tracker, fplog, csvWarehouse>>

\* Step 9: one INSERT into the tracker per filtered row.
TrackInsert(r) ==
    /\ pc[r] = "track"
    /\ ti[r] <= Len(df_filtered[r])
    /\ tracker' = InsertRow(tracker, TrackerRow(r, df_filtered[r][ti[r]].RECORD_HASH))
    /\ ti' = [ti EXCEPT ![r] = ti[r] + 1]
    /\ UNCHANGED <<script, pc, err, conn, response, json_data, api_fingerprint,
                   df, existing_hashes, df_filtered, ai, local_csv, tmpfiles,
                   clock, archive, flatCreated, flat, stage, loadedFiles, fplog,
                   csvWarehouse>>

\* The tracker loop has no row left.
TrackDone(r) ==
    /\ pc[r] = "track"
    /\ ti[r] > Len(df_filtered[r])
    /\ pc' = [pc EXCEPT ![r] = Follows("track")]
    /\ UNCHANGED <<script, err, conn, locals, tmpfiles, clock, warehouse,
                   csvWarehouse>>

\* Step 10: the fingerprint log row; the try block ends.
LogFingerprint(r) ==
    /\ pc[r] = "log"
    /\ fplog' = LogInsert(fplog, r)
    /\ pc' = [pc EXCEPT ![r] = Follows("log")]
    /\ UNCHANGED <<script, err, conn, locals, tmpfiles, clock, archive,
                   flatCreated, flat, stage, loadedFiles, tracker,
                   csvWarehouse>>

\* The statement at hand raises: its effect does not take place, and the
\* except clause catches the exception.
Raise(r) ==
    /\ pc[r] \in TryStages
    /\ err[r] = "none"
    /\ pc[r] = "archive" => ai[r] <= Len(df_filtered[r])
    /\ pc[r] = "track" => ti[r] <= Len(df_filtered[r])
    /\ err' = [err EXCEPT ![r] = pc[r]]
    /\ pc' = [pc EXCEPT ![r] = ExceptTarget(pc[r])]
    /\ UNCHANGED <<script, conn, locals, tmpfiles, clock, warehouse, csvWarehouse>>

\* finally: cursor.close(); conn.close().
Finally(r) ==
    /\ pc[r] = "finally"
    /\ conn' = [conn EXCEPT ![r] = "closed"]
    /\ pc' = [pc EXCEPT ![r] = "exit"]
    /\ UNCHANGED <<script, err, locals, tmpfiles, clock, warehouse, csvWarehouse>>

Step(r, bodies) ==
    \/ Fetch(r, bodies)
    \/ NormalizeStep(r)
    \/ QueryHashes(r)
    \/ ArchiveInsert(r)
    \/ ArchiveDone(r)
    \/ CreateTable(r)
    \/ WriteCsv(r)
    \/ PutFile(r)
    \/ CopyInto(r)
    \/ TrackInsert(r)
    \/ TrackDone(r)
    \/ LogFingerprint(r)
    \/ Raise(r)
    \/ Finally(r)

\* ------------------------------------------------------- test_api.py
\* Step 1: requests.get, raise_for_status, response.json()[:5].
IngestFetch(r, bodies) ==
    /\ pc[r] = "t_fetch"
    /\ \E text \in bodies :
        /\ response' = [response EXCEPT ![r] = text]
        /\ json_data' = [json_data EXCEPT ![r] = Truncate(text, TestLimit)]
    /\ pc' = [pc EXCEPT ![r] = "t_normalize"]
    /\ UNCHANGED <<script, err, conn, api_fingerprint, df, existing_hashes,
                   df_filtered, ai, ti, local_csv, tmpfiles, clock, warehouse,
                   csvWarehouse>>

\* The frame with _INGEST_TS and RECORD_HASH.
IngestNormalize(r) ==
    /\ pc[r] = "t_normalize"
    /\ clock' = clock + 1
    /\ df' = [df EXCEPT ![r] = Normalize(json_data[r], clock')]
    /\ pc' = [pc EXCEPT ![r] = "t_csv"]
    /\ UNCHANGED <<script, err, conn, response, json_data, api_fingerprint,
                   existing_hashes, df_filtered, ai, ti, local_csv, tmpfiles,
                   warehouse, csvWarehouse>>

\* Step 2: df.to_csv into a fresh temporary file.
IngestWriteCsv(r) ==
    /\ pc[r] = "t_csv"
    /\ local_csv' = [local_csv EXCEPT ![r] = ToCsv(df[r])]
    /\ tmpfiles' = tmpfiles \cup {r}
    /\ pc' = [pc EXCEPT ![r] = "t_create"]
    /\ UNCHANGED <<script, err, conn, response, json_data, api_fingerprint, df,
                   existing_hashes, df_filtered, ai, ti, clock, warehouse,
                   csvWarehouse>>

\* Step 3: conn.cursor(), CREATE TABLE IF NOT EXISTS COVID_STATS_CSV.
IngestCreateTable(r) ==
    /\ pc[r] = "t_create"
    /\ csvCreated' = TRUE
    /\ pc' = [pc EXCEPT ![r] = "t_put"]
    /\ UNCHANGED <<script, err, conn, locals, tmpfiles, clock, warehouse,
                   csvTable, csvStage, csvLoaded>>

\* Step 4: PUT the file into @%COVID_STATS_CSV.
IngestPut(r) ==
    /\ pc[r] = "t_put"
    /\ csvStage' = PutInto(csvStage, r)
    /\ pc' = [pc EXCEPT ![r] = "t_copy"]
    /\ UNCHANGED <<script, err, conn, locals, tmpfiles, clock, warehouse,
                   csvCreated, csvTable, csvLoaded>>

\* Step 5: COPY INTO COVID_STATS_CSV FROM @%COVID_STATS_CSV.
IngestCopy(r) ==
    /\ pc[r] = "t_copy"
    /\ LET files == UnloadedFiles(csvStage, csvLoaded) IN
        /\ csvTable' = csvTable (+) SetToBag(FileRows(files, r))
        /\ csvLoaded' = csvLoaded \cup {f.name : f \in files}
    /\ pc' = [pc EXCEPT ![r] = "t_remove"]
    /\ UNCHANGED <<script, err, conn, locals, tmpfiles, clock, warehouse,
                   csvCreated, csvStage>>

\* os.remove(local_csv); ingest() returns and the process ends.
IngestRemove(r) ==
    /\ pc[r] = "t_remove"
    /\ tmpfiles' = tmpfiles \ {r}
    /\ pc' = [pc EXCEPT ![r] = "exit"]
    /\ UNCHANGED <<script, err, conn, locals, clock, warehouse, csvWarehouse>>

\* A statement of ingest() raises: nothing catches it, the process ends.
IngestRaise(r) ==
    /\ pc[r] \in {"t_fetch", "t_normalize", "t_csv", "t_create", "t_put",
                  "t_copy", "t_remove"}
    /\ err' = [err EXCEPT ![r] = pc[r]]
    /\ pc' = [pc EXCEPT ![r] = "exit"]
    /\ UNCHANGED <<script, conn, locals, tmpfiles, clock, warehouse, csvWarehouse>>

IngestStep(r, bodies) ==
    \/ IngestFetch(r, bodies)
    \/ IngestNormalize(r)
    \/ IngestWriteCsv(r)
    \/ IngestCreateTable(r)
    \/ IngestPut(r)
    \/ IngestCopy(r)
    \/ IngestRemove(r)
    \/ IngestRaise(r)

\* ------------------------------------------------------ specifications
\* Processes of ingest_push_to_snowflake.py that overlap.
Next == \E r \in ConcurrentRuns : Start(r) \/ Step(r, ConcurrentPayloads)

\* Processes of either script, one after the other.
NextSeq ==
    \E r \in SeqRuns :
        \/ StartSeq(r, {PushScript, TestScript})
        \/ Step(r, Payloads)
        \/ IngestStep(r, CsvPayloads)

\* Processes of ingest_push_to_snowflake.py, one after the other.
NextRerun ==
    \E r \in RerunRuns : StartSeq(r, {PushScript}) \/ Step(r, RerunPayloads)

Spec == Init /\ [][Next]_vars

SpecSeq == Init /\ [][NextSeq]_vars

SpecRerun == Init /\ [][NextRerun]_vars

\* ------------------------------------------------- reading the state
RECURSIVE SumCopies(_, _)
SumCopies(table, rows) ==
    IF rows = {} THEN 0
    ELSE LET row == CHOOSE x \in rows : TRUE
         IN  CopiesIn(row, table) + SumCopies(table, rows \ {row})

\* SELECT COUNT(*) FROM table WHERE Test(row)
RowsWhere(table, Test(_)) ==
    SumCopies(table, {row \in BagToSet(table) : Test(row)})

\* The rows session r wrote into the table.
RowsOf(table, r) == {row \in BagToSet(table) : row.by = r}

ArchivedBy(r, h) == RowsWhere(archive, LAMBDA row : row.by = r /\ row.record_hash = h)
TrackedBy(r, h) == RowsWhere(tracker, LAMBDA row : row.by = r /\ row.record_hash = h)
LoggedBy(r) == RowsWhere(fplog, LAMBDA row : row.by = r)
ArchiveRowsFor(h) == RowsWhere(archive, LAMBDA row : row.record_hash = h)
TrackerRowsFor(h) == RowsWhere(tracker, LAMBDA row : row.record_hash = h)
FlatRowsFor(h) == RowsWhere(flat, LAMBDA row : row.row.RECORD_HASH = h)

\* The flat rows that come from the file run r staged.
FlatFromFile(r, h) ==
    RowsWhere(flat, LAMBDA row : row.file = r /\ row.row.RECORD_HASH = h)

\* Everything run r has written into the warehouse.
WrittenBy(r) ==
    <<RowsOf(archive, r), RowsOf(flat, r), RowsOf(tracker, r), RowsOf(fplog, r),
      {f \in stage : f.name = r}>>

NothingWritten == <<{}, {}, {}, {}, {}>>

Hashes(frame) == {frame[k].RECORD_HASH : k \in 1..Len(frame)}
HashSeq(frame) == [k \in 1..Len(frame) |-> frame[k].RECORD_HASH]
Occurrences(frame, h) == Cardinality({k \in 1..Len(frame) : frame[k].RECORD_HASH = h})

Main(r) == script[r] = PushScript
Done(r) == Main(r) /\ pc[r] = "exit" /\ err[r] = "none"
Failed(r) == Main(r) /\ err[r] # "none"

\* Run r has executed the statement `at` of the try block without exception.
Reached(r) ==
    IF err[r] # "none" THEN PositionIn(StatementOrder, err[r])
    ELSE IF pc[r] = "exit" THEN Len(StatementOrder) + 1
    ELSE PositionIn(StatementOrder, pc[r])

Completed(r, at) == Main(r) /\ Reached(r) > PositionIn(StatementOrder, at)

\* The stage of the run's state machine a position stands for: the last
\* stage the run has completed.
StageAt(p, e) ==
    IF e # "none" THEN "FAILED"
    ELSE CASE p = "idle" -> "IDLE"
           [] p = "fetch" -> "STARTED"
           [] p = "normalize" -> "FETCHED"
           [] p = "query" -> "NORMALIZED"
           [] p = "archive" -> "FILTERED"
           [] p \in {"create", "csv", "put", "copy"} -> "ARCHIVED"
           [] p = "track" -> "FLAT_WRITTEN"
           [] p = "log" -> "TRACKED"
           [] p = "finally" -> "LOGGED"
           [] p = "exit" -> "DONE"

Stage(r) == StageAt(pc[r], err[r])

StageOrder ==
    <<"IDLE", "STARTED", "FETCHED", "NORMALIZED", "FILTERED", "ARCHIVED",
      "FLAT_WRITTEN", "TRACKED", "LOGGED", "DONE">>

StageStep(a, b) ==
    \/ a = b
    \/ a \notin {"DONE", "FAILED"} /\ b = "FAILED"
    \/ /\ a # "FAILED" /\ b # "FAILED" /\ a # "DONE"
       /\ PositionIn(StageOrder, b) = PositionIn(StageOrder, a) + 1

\* ---------------------------------------------------------------- C1
\* C1: once a run has filtered, with N rows in the frame of which M have a
\* hash in the set read from the tracker, the filtered frame has N - M rows,
\* each a row of the frame with a hash outside that set, in the frame's order.
C1_DedupCorrect ==
    \A r \in Runs : Completed(r, "query") =>
        LET N == Len(df[r])
            M == Cardinality({i \in 1..N : df[r][i].RECORD_HASH \in existing_hashes[r]})
            out == df_filtered[r]
        IN  /\ Len(out) = N - M
            /\ \A k \in 1..Len(out) :
                /\ out[k].idx \in 1..N
                /\ out[k] = df[r][out[k].idx]
                /\ out[k].RECORD_HASH \notin existing_hashes[r]
            /\ \A j, k \in 1..Len(out) : j < k => out[j].idx < out[k].idx

\* A frame of two rows whose first hash is tracked: only the second is kept.
C1_Witness ==
    \E r \in Runs :
        /\ Completed(r, "query")
        /\ Len(df[r]) = 2
        /\ df[r][1].RECORD_HASH \in existing_hashes[r]
        /\ Len(df_filtered[r]) = 1
        /\ df_filtered[r][1].idx = 2

\* ---------------------------------------------------------------- C2
\* C2: after a run that completed without failure, every record of the
\* fetched array whose hash the tracker did not hold has exactly one archive
\* row, one flat row and one tracker row of this run, and every record whose
\* hash was tracked has none.
C2_EveryNewRecordWrittenOnce ==
    \A r \in Runs : Done(r) =>
        LET fetched == Normalize(response[r], 0) IN
        \A h \in Hashes(fetched) :
            LET n == IF h \in existing_hashes[r] THEN 0 ELSE Occurrences(fetched, h)
            IN  /\ ArchivedBy(r, h) = n
                /\ FlatFromFile(r, h) = n
                /\ TrackedBy(r, h) = n

\* ---------------------------------------------------------------- C3
\* C3 as stated: every run of ingest_api_to_snowflake that has ended has
\* appended exactly one fingerprint-log row.
C3_OneLogRowPerRun ==
    \A r \in Runs : Main(r) /\ pc[r] = "exit" => LoggedBy(r) = 1

\* C3 amended: a run has appended exactly one fingerprint-log row (source,
\* fingerprint of the response text, its length) once its last statement has
\* executed, however many rows passed the filter, and none before that: a
\* run that fails at any statement appends none.
C3_OneLogRowPerCompletedRun ==
    \A r \in Runs : Main(r) =>
        /\ LoggedBy(r) = IF Completed(r, "log") THEN 1 ELSE 0
        /\ Completed(r, "log") =>
            RowsOf(fplog, r) =
                {[api_id |-> "covid_api", fingerprint |-> TextHash(response[r]),
                  payload_length |-> Len(response[r]), by |-> r]}

\* A completed run none of whose records was new, with its one log row.
C3_Witness ==
    \E r \in Runs :
        /\ Done(r)
        /\ Len(df[r]) > 0
        /\ Len(df_filtered[r]) = 0
        /\ LoggedBy(r) = 1

\* ---------------------------------------------------------------- C4
\* C4: a run whose fetch, normalisation or tracker query raised is in the
\* failed state (past the except clause) and has written no archive row, no
\* flat row, no tracker row, no fingerprint-log row and no staged file.
C4_FailEarlyWritesNothing ==
    \A r \in Runs :
        Main(r) /\ err[r] \in {"fetch", "normalize", "query"} =>
            /\ pc[r] \in {"finally", "exit"}
            /\ WrittenBy(r) = NothingWritten

\* A run whose tracker query failed has ended, beside a run that wrote.
C4_Witness ==
    \E r, q \in Runs :
        /\ err[r] = "query" /\ pc[r] = "exit"
        /\ Done(q) /\ RowsOf(tracker, q) # {}

\* ---------------------------------------------------------------- C5
\* C5: every step takes a run of ingest_api_to_snowflake from its stage to
\* the same stage, to the next stage of FETCHED, NORMALIZED, FILTERED,
\* ARCHIVED, FLAT_WRITTEN, TRACKED, LOGGED, DONE, or to FAILED; a FAILED run
\* stays FAILED and writes nothing more.
C5_StageOrder ==
    [][\A r \in Runs : script'[r] # TestScript =>
          /\ StageStep(StageAt(pc[r], err[r]), StageAt(pc'[r], err'[r]))
          /\ err[r] # "none" => WrittenBy(r)' = WrittenBy(r)]_vars

\* One run went through every stage with rows to write, another failed in
\* the flat write.
C5_Witness ==
    \E r, q \in Runs :
        /\ Main(r) /\ Stage(r) = "DONE" /\ Len(df_filtered[r]) > 0
        /\ Main(q) /\ Stage(q) = "FAILED" /\ err[q] = "copy" /\ pc[q] = "exit"

\* ---------------------------------------------------------------- C6
\* C6: no run that has ended leaves its warehouse connection open.
C6_ConnectionClosedOnExit ==
    \A r \in Runs : pc[r] = "exit" => conn[r] = "closed"

\* ---------------------------------------------------------------- C7
\* C7: when two runs have both read the tracker before either inserted the
\* tracker row of a hash both fetched, both keep the record in their filtered
\* frame, and once both have completed the archive and the tracker each hold
\* two rows of that hash.
C7_RaceDoubleInsert ==
    \A r, s \in Runs : \A h \in Hashes(df[r]) \cap Hashes(df[s]) :
        ( /\ r # s
          /\ Completed(r, "query") /\ Completed(s, "query")
          /\ h \notin existing_hashes[r] /\ h \notin existing_hashes[s] ) =>
            /\ h \in Hashes(df_filtered[r])
            /\ h \in Hashes(df_filtered[s])
            /\ Done(r) /\ Done(s) =>
                /\ ArchiveRowsFor(h) >= 2
                /\ TrackerRowsFor(h) >= 2

\* Two completed runs, each with its own archive row and tracker row of the
\* same hash.
C7_Witness ==
    \E r, s \in Runs : \E h \in Hashes(df[r]) :
        /\ r # s /\ Done(r) /\ Done(s)
        /\ ArchivedBy(r, h) = 1 /\ ArchivedBy(s, h) = 1
        /\ TrackedBy(r, h) = 1 /\ TrackedBy(s, h) = 1
        /\ ArchiveRowsFor(h) = 2 /\ TrackerRowsFor(h) = 2

\* ---------------------------------------------------------------- C8
\* C8: when run r failed after its archive loop and before its first tracker
\* insert, its archive rows are in the archive and it has no tracker row; the
\* next run s, if it fetched the same response, reads the same hashes from
\* the tracker and keeps the same records; once s has archived, each of them
\* has a second archive row, and once s has copied, each of them that r had
\* staged has a second flat row.
C8_CrashBeforeTrackingDuplicates ==
    \A r \in Runs :
        ( /\ Main(r)
          /\ err[r] \in {"create", "csv", "put", "copy", "track"}
          /\ RowsOf(tracker, r) = {} ) =>
            /\ \A h \in Hashes(df_filtered[r]) :
                ArchivedBy(r, h) = Occurrences(df_filtered[r], h)
            /\ \A s \in Runs :
                ( /\ s = r + 1
                  /\ response[s] = response[r]
                  /\ Completed(s, "query") ) =>
                    /\ existing_hashes[s] = existing_hashes[r]
                    /\ HashSeq(df_filtered[s]) = HashSeq(df_filtered[r])
                    /\ \A h \in Hashes(df_filtered[r]) :
                        /\ Completed(s, "archive") =>
                            /\ ArchivedBy(s, h) = ArchivedBy(r, h)
                            /\ ArchiveRowsFor(h) >= 2
                        /\ Completed(s, "copy") /\ err[r] \in {"copy", "track"} =>
                            /\ FlatFromFile(s, h) = FlatFromFile(r, h)
                            /\ FlatRowsFor(h) >= 2

\* A run failed in COPY with its archive rows written; the next run fetched
\* the same response and completed: two archive rows and two flat rows.
C8_Witness ==
    \E r, s \in Runs : \E h \in Hashes(df_filtered[r]) :
        /\ s = r + 1
        /\ Main(r) /\ err[r] = "copy"
        /\ response[s] = response[r]
        /\ Done(s)
        /\ ArchiveRowsFor(h) = 2
        /\ FlatRowsFor(h) = 2
        /\ TrackerRowsFor(h) = 1

C10_TrackerIsSet ==
    (\A r \in Runs : pc[r] \in {"idle", "exit"} /\ err[r] = "none") =>
        /\ \A row \in BagToSet(tracker) : TrackerRowsFor(row.record_hash) = 1
        /\ \A row \in BagToSet(archive) : ArchiveRowsFor(row.record_hash) = 1

====
